---- MODULE Spec2Model ----
(***************************************************************************)
(* A model of package env (lentregu/env): Parse walks the fields of a      *)
(* struct by reflection, resolves each field's source string from the      *)
(* environment (get), converts it to the field's type (set) and joins the  *)
(* per-field errors into one error.                                        *)
(*                                                                         *)
(* Go strings are sequences of one-character strings, so that Split, the   *)
(* concatenation of error messages and Join compute what the code          *)
(* computes.  A Go value is a record with one slot per kind (the unused    *)
(* slots hold the zero value); a struct field carries its three tags, its  *)
(* visibility and its value.  The field kinds of the model are String,     *)
(* Bool, Int, Slice, Struct, Ptr and Map (a kind set() does not support);  *)
(* Uint, Int64, the floats and time.Duration are outside the model's type  *)
(* universe.                                                               *)
(***************************************************************************)
EXTENDS Integers, Sequences, FiniteSets, TLC

VARIABLES env, arg, pc, out, err, trace, gfield, gres

vars == <<env, arg, pc, out, err, trace, gfield, gres>>

----------------------------------------------------------------------------
(* Strings *)

Str(c) == <<c>>

EmptyStr == <<>>

\* strings.HasPrefix(s, p) at offset i (1-based): p occurs in s at position i
OccursAt(s, p, i) ==
    /\ i + Len(p) - 1 <= Len(s)
    /\ \A k \in 1..Len(p) : s[i + k - 1] = p[k]

\* the least member of a set of positions, 0 for the empty set
First(hits) == IF hits = {} THEN 0 ELSE CHOOSE i \in hits : \A j \in hits : i <= j

\* strings.Index(s, sep), 1-based; 0 when sep does not occur in s
Index(s, sep) == First({i \in 1..Len(s) : OccursAt(s, sep, i)})

\* strings.Contains(s, sub)
Contains(s, sub) == sub = EmptyStr \/ Index(s, sub) # 0

RECURSIVE Explode(_)
\* strings.Split with an empty separator: one string per character
Explode(s) == IF s = EmptyStr THEN <<>> ELSE <<Str(Head(s))>> \o Explode(Tail(s))

RECURSIVE SplitBy(_, _)
\* the pieces of s, given the position m of the first sep in s
SplitAt(s, sep, m) ==
    IF m = 0 THEN <<s>>
    ELSE <<SubSeq(s, 1, m - 1)>> \o SplitBy(SubSeq(s, m + Len(sep), Len(s)), sep)

SplitBy(s, sep) == SplitAt(s, sep, Index(s, sep))

\* strings.Split(s, sep)
Split(s, sep) == IF sep = EmptyStr THEN Explode(s) ELSE SplitBy(s, sep)

RECURSIVE Join(_, _)
\* strings.Join(elems, sep)
Join(elems, sep) ==
    IF elems = <<>> THEN EmptyStr
    ELSE IF Len(elems) = 1 THEN elems[1]
    ELSE elems[1] \o sep \o Join(Tail(elems), sep)

\* strconv.Quote for strings of printable ASCII without quote or backslash
Quote(s) == <<"\"">> \o s \o <<"\"">>

----------------------------------------------------------------------------
(* Errors *)

NilErr == [isNil |-> TRUE, msg |-> EmptyStr]

\* errors.New(msg)
NewErr(m) == [isNil |-> FALSE, msg |-> m]

ErrNotAStructPtrMsg == <<"E","x","p","e","c","t","e","d"," ","a"," ","p","o","i","n","t","e","r"," ","t","o"," ","a"," ","S","t","r","u","c","t">>

ErrUnsupportedTypeMsg == <<"T","y","p","e"," ","i","s"," ","n","o","t"," ","s","u","p","p","o","r","t","e","d">>

ErrMismatchTypeMsg == <<"D","a","t","a"," ","T","y","p","e"," ","m","i","s","m","a","t","c","h","."," ","M","i","s","m","a","t","c","h","i","n","g"," ","l","e","f","t"," ","a","n","d"," ","r","i","g","h","t"," ","h","a","n","d"," ","t","y","p","e","s">>

ErrUnsupportedSliceTypeMsg == <<"U","n","s","u","p","p","o","r","t","e","d"," ","s","l","i","c","e"," ","t","y","p","e">>

ErrNotAStructPtr == NewErr(ErrNotAStructPtrMsg)

ErrUnsupportedType == NewErr(ErrUnsupportedTypeMsg)

ErrMismatchType == NewErr(ErrMismatchTypeMsg)

ErrUnsupportedSliceType == NewErr(ErrUnsupportedSliceTypeMsg)

RequiredPrefix == <<"R","e","q","u","i","r","e","d"," ","e","n","v","i","r","o","n","m","e","n","t"," ","v","a","r","i","a","b","l","e"," ">>

RequiredSuffix == <<" ","i","s"," ","n","o","t"," ","s","e","t">>

OptPrefix == <<"E","n","v"," ","t","a","g"," ","o","p","t","i","o","n"," ">>

OptSuffix == <<" ","n","o","t"," ","s","u","p","p","o","r","t","e","d",".">>

JoinSep == <<"."," ">>

RequiredOpt == <<"r","e","q","u","i","r","e","d">>

Comma == <<",">>

\* the message getRequired builds for an absent variable
RequiredMsg(key) == RequiredPrefix \o key \o RequiredSuffix

\* the message get builds for an option it does not know
OptMsg(opt) == OptPrefix \o opt \o OptSuffix

----------------------------------------------------------------------------
(* The environment: os.LookupEnv *)

Absent == [ok |-> FALSE, value |-> EmptyStr]

Present(v) == [ok |-> TRUE, value |-> v]

\* os.LookupEnv(key) in the environment e, a function on the variable names
\* the model lets the process hold; every other name (the empty name of an
\* untagged field among them) is not set
LookupEnv(e, key) == IF key \in DOMAIN e THEN e[key] ELSE Absent

----------------------------------------------------------------------------
(* The Resolver: get, parseKeyForOption, getRequired, getOr *)

\* opts[0], opts[1:]
keyAndOpts(opts) == [key |-> opts[1], opts |-> Tail(opts)]

parseKeyForOption(key) == keyAndOpts(Split(key, Comma))

\* the result of getRequired, given what os.LookupEnv(key) returned
required(key, r) ==
    IF r.ok THEN [val |-> r.value, err |-> NilErr]
    ELSE [val |-> EmptyStr, err |-> NewErr(RequiredMsg(key))]

getRequired(e, key) == required(key, LookupEnv(e, key))

\* a getOr on os.Getenv: a variable set to the empty string counts as absent
getOrGetenv(e, key, defaultValue) ==
    IF LookupEnv(e, key).value # EmptyStr THEN LookupEnv(e, key).value ELSE defaultValue

\* the result of getOr, given what os.LookupEnv(key) returned
valueOr(r, defaultValue) == IF r.ok THEN r.value ELSE defaultValue

getOr(e, key, defaultValue) == valueOr(LookupEnv(e, key), defaultValue)

\* one iteration of the loop over opts: the switch on opt
applyOpt(e, key, opt, cur) ==
    IF opt = EmptyStr THEN cur
    ELSE IF opt = RequiredOpt THEN getRequired(e, key)
    ELSE [val |-> cur.val, err |-> NewErr(OptMsg(opt))]

RECURSIVE applyOpts(_, _, _, _)
applyOpts(e, key, opts, cur) ==
    IF opts = <<>> THEN cur
    ELSE applyOpts(e, key, Tail(opts), applyOpt(e, key, Head(opts), cur))

\* get(field): the source string of a field and the error of its options
\* get after the split of the env tag into ko
getKeyed(e, ko, defaultValue) ==
    applyOpts(e, ko.key, ko.opts, [val |-> getOr(e, ko.key, defaultValue), err |-> NilErr])

get(e, field) == getKeyed(e, parseKeyForOption(field.env), field.dflt)

----------------------------------------------------------------------------
(* Go values as reflect sees them *)

\* the zero value of a kind; a nil pointer and a nil slice are zero values
Zero(kind) ==
    [kind |-> kind, str |-> EmptyStr, bool |-> FALSE, int |-> 0,
     elemKind |-> "", elems |-> <<>>, fields |-> <<>>, ptr |-> <<>>]

StringV(s) == [Zero("String") EXCEPT !.str = s]

BoolV(b) == [Zero("Bool") EXCEPT !.bool = b]

IntV(n) == [Zero("Int") EXCEPT !.int = n]

\* a slice type []elemKind holding elems
SliceV(elemKind, elems) == [Zero("Slice") EXCEPT !.elemKind = elemKind, !.elems = elems]

StructV(fields) == [Zero("Struct") EXCEPT !.fields = fields]

\* a non-nil pointer to v
PtrTo(v) == [Zero("Ptr") EXCEPT !.ptr = <<v>>]

NilPtr == Zero("Ptr")

\* reflect.Value.IsNil of a pointer
IsNil(v) == v.ptr = <<>>

\* reflect.Value.Elem().Kind() of a pointer: Invalid for a nil pointer
ElemKind(v) == IF IsNil(v) THEN "Invalid" ELSE v.ptr[1].kind

\* a struct field: the tags env, envDefault and envSeparator, the field's
\* visibility ("exported", "unexported", or "embedded": an embedded field of
\* an unexported type) and its value
Field(envTag, dflt, sep, vis, v) ==
    [env |-> envTag, dflt |-> dflt, sep |-> sep, vis |-> vis, v |-> v]

\* reflect.Value.CanSet of a field of an addressable struct: ro is the
\* read-only flag the struct inherited from an unexported, non-embedded
\* ancestor field
CanSet(f, ro) == ~ro /\ f.vis = "exported"

\* the read-only flag the fields of the struct field f inherit
FieldsRO(f, ro) == ro \/ f.vis = "unexported"

----------------------------------------------------------------------------
(* The Converter: strconv, set, handleSlice *)

BoolTrue == {<<"1">>, <<"t">>, <<"T">>, <<"T","R","U","E">>, <<"t","r","u","e">>, <<"T","r","u","e">>}

BoolFalse == {<<"0">>, <<"f">>, <<"F">>, <<"F","A","L","S","E">>, <<"f","a","l","s","e">>, <<"F","a","l","s","e">>}

ParseBoolPrefix == <<"s","t","r","c","o","n","v",".","P","a","r","s","e","B","o","o","l",":"," ","p","a","r","s","i","n","g"," ">>

ParseIntPrefix == <<"s","t","r","c","o","n","v",".","P","a","r","s","e","I","n","t",":"," ","p","a","r","s","i","n","g"," ">>

SyntaxSuffix == <<":"," ","i","n","v","a","l","i","d"," ","s","y","n","t","a","x">>

RangeSuffix == <<":"," ","v","a","l","u","e"," ","o","u","t"," ","o","f"," ","r","a","n","g","e">>

\* strconv.ParseBool(s)
ParseBool(s) ==
    IF s \in BoolTrue THEN [val |-> BoolV(TRUE), err |-> NilErr]
    ELSE IF s \in BoolFalse THEN [val |-> BoolV(FALSE), err |-> NilErr]
    ELSE [val |-> BoolV(FALSE), err |-> NewErr(ParseBoolPrefix \o Quote(s) \o SyntaxSuffix)]

Digits == <<"0","1","2","3","4","5","6","7","8","9">>

IsDigit(c) == \E d \in 1..10 : Digits[d] = c

DigitVal(c) == (CHOOSE d \in 1..10 : Digits[d] = c) - 1

MaxInt32 == 2147483647

\* acc, the magnitude read so far, with the digit d appended: n is the
\* magnitude while it is at most MaxInt32, min says that it is MaxInt32 + 1
\* (the magnitude of the least 32-bit integer), over that it is larger
addDigit(acc, d) ==
    IF acc.over \/ acc.min THEN [acc EXCEPT !.over = TRUE, !.min = FALSE]
    ELSE IF acc.n < MaxInt32 \div 10 \/ (acc.n = MaxInt32 \div 10 /\ d <= (MaxInt32 % 10))
         THEN [acc EXCEPT !.n = acc.n * 10 + d]
    ELSE IF acc.n = MaxInt32 \div 10 /\ d = (MaxInt32 % 10) + 1
         THEN [acc EXCEPT !.min = TRUE]
    ELSE [acc EXCEPT !.over = TRUE]

RECURSIVE Accumulate(_, _)
\* the digits of s read in base 10 on top of acc
Accumulate(s, acc) ==
    IF s = EmptyStr THEN acc
    ELSE Accumulate(Tail(s), addDigit(acc, DigitVal(Head(s))))

SyntaxErr(s) == [val |-> IntV(0), err |-> NewErr(ParseIntPrefix \o Quote(s) \o SyntaxSuffix)]

RangeErr(s) == [val |-> IntV(0), err |-> NewErr(ParseIntPrefix \o Quote(s) \o RangeSuffix)]

\* the 32-bit integer of sign neg and magnitude a, or the range error
signedInt(s, neg, a) ==
    IF a.over \/ (a.min /\ ~neg) THEN RangeErr(s)
    ELSE IF a.min THEN [val |-> IntV(-MaxInt32 - 1), err |-> NilErr]
    ELSE [val |-> IntV(IF neg THEN -a.n ELSE a.n), err |-> NilErr]

\* ParseInt of s, whose digits are body
parseDigits(s, neg, body) ==
    IF body = EmptyStr \/ \E i \in 1..Len(body) : ~IsDigit(body[i]) THEN SyntaxErr(s)
    ELSE signedInt(s, neg, Accumulate(body, [n |-> 0, min |-> FALSE, over |-> FALSE]))

\* strconv.ParseInt(s, 10, 32)
ParseInt(s) ==
    IF s # EmptyStr /\ Head(s) \in {"+", "-"}
    THEN parseDigits(s, Head(s) = "-", Tail(s))
    ELSE parseDigits(s, FALSE, s)

\* the scalar conversion of a slice element
parseElem(elemKind, s) == IF elemKind = "Int" THEN ParseInt(s) ELSE ParseBool(s)

RECURSIVE parseElems(_, _)
\* the first element converted to one, the rest to rest
consElems(one, rest) ==
    IF ~rest.err.isNil THEN rest
    ELSE [elems |-> <<one.val>> \o rest.elems, err |-> NilErr]

\* the rest is converted only when the first element was
afterElem(elemKind, one, data) ==
    IF ~one.err.isNil THEN [elems |-> <<>>, err |-> one.err]
    ELSE consElems(one, parseElems(elemKind, Tail(data)))

\* parseInts, parseBools: the elements converted in order, nothing on the
\* first one that fails
parseElems(elemKind, data) ==
    IF data = <<>> THEN [elems |-> <<>>, err |-> NilErr]
    ELSE afterElem(elemKind, parseElem(elemKind, Head(data)), data)

\* the result of set: the field's value after it, the error, and whether the
\* field was written
Wrote(v) == [v |-> v, err |-> NilErr, wrote |-> TRUE]

Failed(v, e) == [v |-> v, err |-> e, wrote |-> FALSE]

RECURSIVE stringElems(_)
stringElems(data) ==
    IF data = <<>> THEN <<>> ELSE <<StringV(Head(data))>> \o stringElems(Tail(data))

\* field.Set of the converted elements, or the error of the conversion
setElems(v, r) ==
    IF ~r.err.isNil THEN Failed(v, r.err) ELSE Wrote([v EXCEPT !.elems = r.elems])

\* the switch of handleSlice on the slice's type
storeSlice(v, splitData) ==
    IF v.elemKind = "String" THEN Wrote([v EXCEPT !.elems = stringElems(splitData)])
    ELSE IF v.elemKind \in {"Int", "Bool"} THEN setElems(v, parseElems(v.elemKind, splitData))
    ELSE Failed(v, ErrUnsupportedSliceType)

handleSlice(v, value, separator) ==
    storeSlice(v, Split(value, IF separator = EmptyStr THEN Comma ELSE separator))

\* the field set to the converted scalar, or the error of the conversion
setScalar(v, r) == IF ~r.err.isNil THEN Failed(v, r.err) ELSE Wrote(r.val)

\* set(field, refType, value): v is the field's value, sep its envSeparator
set(v, sep, value) ==
    IF v.kind = "Slice" THEN handleSlice(v, value, sep)
    ELSE IF v.kind = "String" THEN Wrote([v EXCEPT !.str = value])
    ELSE IF v.kind = "Bool" THEN setScalar(v, ParseBool(value))
    ELSE IF v.kind = "Int" THEN setScalar(v, ParseInt(value))
    ELSE IF v.kind = "Struct" THEN Failed(v, ErrMismatchType)
    ELSE Failed(v, ErrUnsupportedType)

----------------------------------------------------------------------------
(* The Binder: Parse and doParse *)

\* What one call did, in order (bookkeeping the code does not hold): "parse",
\* the recursive Parse of a pointer field, with the error it returned;
\* "get", the resolution of a field; "set", a write of a field; "err", an
\* error appended to the call's errorList.  path is the field's index
\* path from the struct Parse was called on.
Event(op, path, e) == [op |-> op, path |-> path, err |-> e]

\* line 110: the field is a non-nil pointer that can be set
isPtrField(f, ro) == f.v.kind = "Ptr" /\ ~IsNil(f.v) /\ CanSet(f, ro)

\* a doParse that skips no field
isSkippedNever(f, ro) == FALSE

\* line 119: the field cannot be set and is no struct
isSkipped(f, ro) == ~CanSet(f, ro) /\ f.v.kind # "Struct"

\* line 125: the field is a struct and its own source string is empty
isStructField(f, value) == f.v.kind = "Struct" /\ value = EmptyStr

\* line 131: the field is a pointer to a struct and its source string is empty
isPtrToStructField(f, value) ==
    f.v.kind = "Ptr" /\ ElemKind(f.v) = "Struct" /\ value = EmptyStr

\* a doParse that hands the empty source string to set
isEmptyValueNever(value) == FALSE

\* line 140: the source string is empty and the field is left alone
isEmptyValue(value) == value = EmptyStr

\* lines 148-151: the error doParse returns for its errorList
joinErrors(errorList) ==
    IF Len(errorList) = 0 THEN NilErr ELSE NewErr(Join(errorList, JoinSep))

\* a doParse that appends the error of the nested doParse to its errorList
nestedErrorsKept(errorList, nested) ==
    IF nested.err.isNil THEN errorList ELSE Append(errorList, nested.err.msg)

\* line 126: the error of the nested doParse is dropped
nestedErrors(errorList, nested) == errorList

\* a doParse that goes on after Parse of a pointer field failed
ptrFailedNever(r) == FALSE

\* lines 112-114: Parse of a pointer field failed and doParse returns
ptrFailed(r) == ~r.err.isNil

Put(fields, i, v) == [fields EXCEPT ![i] = [@ EXCEPT !.v = v]]

RECURSIVE Parse(_, _, _)
RECURSIVE doParse(_, _, _, _)
RECURSIVE fieldLoop(_, _, _, _, _, _, _)

\* lines 111-115: r is what Parse of the pointer field i returned
afterParse(e, fields, i, ro, path, errorList, tr, r) ==
    IF ptrFailed(r)
    THEN [fields |-> Put(fields, i, r.v), err |-> r.err, trace |-> tr \o r.trace]
    ELSE fieldLoop(e, Put(fields, i, r.v), i + 1, ro, path, errorList, tr \o r.trace)

\* lines 126-127 and 132-133: r is what doParse of the nested struct
\* returned, v the value of field i after it
afterNested(e, fields, i, ro, path, errorList, tr, r, v) ==
    fieldLoop(e, Put(fields, i, v), i + 1, ro, path, nestedErrors(errorList, r), tr \o r.trace)

\* lines 143-146: s is what set of field i returned
afterSet(e, fields, i, ro, path, errorList, tr, s) ==
    IF ~s.err.isNil
    THEN fieldLoop(e, fields, i + 1, ro, path, Append(errorList, s.err.msg),
                   Append(tr, Event("err", Append(path, i), s.err)))
    ELSE fieldLoop(e, Put(fields, i, s.v), i + 1, ro, path, errorList,
                   Append(tr, Event("set", Append(path, i), NilErr)))

\* lines 124-146: g is what get of field i returned
afterGet(e, fields, i, ro, path, errorList, tr, g) ==
    IF isStructField(fields[i], g.val)
    THEN afterNested(e, fields, i, ro, path, errorList, tr,
                     doParse(e, fields[i].v, FieldsRO(fields[i], ro), Append(path, i)),
                     doParse(e, fields[i].v, FieldsRO(fields[i], ro), Append(path, i)).v)
    ELSE IF isPtrToStructField(fields[i], g.val)
    THEN afterNested(e, fields, i, ro, path, errorList, tr,
                     doParse(e, fields[i].v.ptr[1], FieldsRO(fields[i], ro), Append(path, i)),
                     PtrTo(doParse(e, fields[i].v.ptr[1], FieldsRO(fields[i], ro), Append(path, i)).v))
    ELSE IF ~g.err.isNil
    THEN fieldLoop(e, fields, i + 1, ro, path, Append(errorList, g.err.msg),
                   Append(tr, Event("err", Append(path, i), g.err)))
    ELSE IF isEmptyValue(g.val)
    THEN fieldLoop(e, fields, i + 1, ro, path, errorList, tr)
    ELSE afterSet(e, fields, i, ro, path, errorList, tr, set(fields[i].v, fields[i].sep, g.val))

\* the event of a call and what the call returned
Logged(tr, op, path, r) == Append(tr, Event(op, path, r.err))

\* lines 109-147: the loop of doParse from field i on, with the errorList
\* and the events so far
fieldLoop(e, fields, i, ro, path, errorList, tr) ==
    IF i > Len(fields)
    THEN [fields |-> fields, err |-> joinErrors(errorList), trace |-> tr]
    ELSE IF isPtrField(fields[i], ro)
    THEN afterParse(e, fields, i, ro, path, errorList,
                    Logged(tr, "parse", Append(path, i), Parse(e, fields[i].v, Append(path, i))),
                    Parse(e, fields[i].v, Append(path, i)))
    ELSE IF isSkipped(fields[i], ro)
    THEN fieldLoop(e, fields, i + 1, ro, path, errorList, tr)
    ELSE afterGet(e, fields, i, ro, path, errorList,
                  Logged(tr, "get", Append(path, i), get(e, fields[i])),
                  get(e, fields[i]))

\* the struct v with the fields the loop left
withFields(v, r) == [v |-> [v EXCEPT !.fields = r.fields], err |-> r.err, trace |-> r.trace]

\* doParse(ref): ref is the struct v, ro its inherited read-only flag
doParse(e, v, ro, path) == withFields(v, fieldLoop(e, v.fields, 1, ro, path, <<>>, <<>>))

\* a Parse that accepts every non-nil pointer
notAPtr(v) == v.kind # "Ptr" \/ IsNil(v)

\* lines 79-85: v is no pointer, or points to no struct
notAStructPtr(v) == v.kind # "Ptr" \/ ElemKind(v) # "Struct"

\* the pointer to the struct doParse left
pointerTo(r) == [v |-> PtrTo(r.v), err |-> r.err, trace |-> r.trace]

\* Parse(v): the value after the call (the pointee is changed in place), the
\* error returned and the events
Parse(e, v, path) ==
    IF notAStructPtr(v) THEN [v |-> v, err |-> ErrNotAStructPtr, trace |-> <<>>]
    ELSE pointerTo(doParse(e, v.ptr[1], FALSE, path))

----------------------------------------------------------------------------
(* The inputs: environments, struct fields, arguments of Parse *)

KeyA == <<"A">>

KeyB == <<"B">>

\* an option get does not know
OtherOpt == <<"o","p","t">>

\* the env tag "key,opt1,opt2,..."
Tag(key, opts) == Join(<<key>> \o opts, Comma)

\* a value no variable and no default of the model holds
Old == <<"o","l","d">>

Seven == <<"7">>

Colon == <<":">>

\* the variables are A and B; each is absent, empty, or holds a short string
Envs ==
    {[k \in {KeyA, KeyB} |-> IF k = KeyA THEN a ELSE b] :
        a \in {Absent, Present(EmptyStr), Present(<<"1">>), Present(<<"x",":","1">>)},
        b \in {Absent, Present(<<"1">>), Present(<<"x">>)}}

\* the structs the struct and pointer fields hold
InnerRequired == StructV(<<Field(Tag(KeyA, <<RequiredOpt>>), EmptyStr, EmptyStr, "exported", StringV(Old)),
                           Field(KeyB, EmptyStr, EmptyStr, "exported", BoolV(FALSE))>>)

InnerB == StructV(<<Field(KeyB, EmptyStr, EmptyStr, "exported", StringV(Old))>>)

InnerAB == StructV(<<Field(KeyA, EmptyStr, EmptyStr, "exported", StringV(Old)),
                     Field(KeyB, EmptyStr, EmptyStr, "exported", StringV(Old))>>)

\* the fields a struct passed to Parse is made of
FieldLib ==
    { Field(KeyA, EmptyStr, EmptyStr, "exported", StringV(Old)),
      Field(Tag(KeyA, <<RequiredOpt>>), EmptyStr, EmptyStr, "exported", StringV(Old)),
      Field(KeyB, EmptyStr, EmptyStr, "exported", BoolV(FALSE)),
      Field(KeyA, Seven, EmptyStr, "exported", IntV(0)),
      Field(KeyA, EmptyStr, Colon, "exported", SliceV("Bool", <<>>)),
      Field(Tag(KeyB, <<OtherOpt>>), EmptyStr, EmptyStr, "exported", StringV(Old)),
      Field(EmptyStr, EmptyStr, EmptyStr, "exported", InnerRequired),
      Field(Tag(KeyA, <<RequiredOpt>>), EmptyStr, EmptyStr, "exported", InnerB),
      Field(EmptyStr, EmptyStr, EmptyStr, "embedded", InnerAB),
      Field(EmptyStr, EmptyStr, EmptyStr, "exported", PtrTo(InnerRequired)),
      Field(EmptyStr, EmptyStr, EmptyStr, "exported", PtrTo(IntV(0))),
      Field(KeyA, EmptyStr, EmptyStr, "exported", NilPtr),
      Field(KeyA, EmptyStr, EmptyStr, "unexported", StringV(Old)),
      Field(KeyA, EmptyStr, EmptyStr, "exported", Zero("Map")),
      Field(EmptyStr, EmptyStr, EmptyStr, "exported", StringV(Old)) }

\* the most fields of a struct passed to Parse
MaxFields == 2

RECURSIVE FieldSeqs(_)
\* the sequences of exactly n fields
FieldSeqs(n) ==
    IF n = 0 THEN {<<>>}
    ELSE {Append(fs, f) : fs \in FieldSeqs(n - 1), f \in FieldLib}

Structs == {StructV(fs) : fs \in UNION {FieldSeqs(n) : n \in 0..MaxFields}}

\* what a caller can pass that is no pointer to a struct: the nil interface,
\* a string, a struct by value, a nil pointer, pointers to non-structs
NonStructPtrs ==
    { Zero("Invalid"), StringV(Old), NilPtr, PtrTo(StringV(Old)), PtrTo(IntV(0)),
      StructV(<<Field(KeyA, EmptyStr, EmptyStr, "exported", StringV(Old))>>),
      PtrTo(PtrTo(InnerAB)) }

Args == {PtrTo(st) : st \in Structs} \cup NonStructPtrs

\* the most options of an env tag given to get
MaxOpts == 2

RECURSIVE OptSeqs(_)
OptSeqs(n) ==
    IF n = 0 THEN {<<>>}
    ELSE {Append(os, o) : os \in OptSeqs(n - 1), o \in {EmptyStr, RequiredOpt, OtherOpt}}

\* the field descriptors given to get
Descriptors ==
    {Field(Tag(k, os), d, EmptyStr, "exported", StringV(Old)) :
        k \in {KeyA, KeyB, EmptyStr},
        os \in UNION {OptSeqs(n) : n \in 0..MaxOpts},
        d \in {EmptyStr, Seven}}

NoField == Field(EmptyStr, EmptyStr, EmptyStr, "exported", Zero("Invalid"))

NoArg == Zero("Invalid")

NoGet == [val |-> EmptyStr, err |-> NilErr]

----------------------------------------------------------------------------
(* The state machine: a caller holds an argument and calls Parse, or holds *)
(* a field descriptor and calls get                                        *)

Init ==
    /\ env \in Envs
    /\ \/ pc = "callParse" /\ arg \in Args /\ gfield = NoField
       \/ pc = "callGet" /\ arg = NoArg /\ gfield \in Descriptors
    /\ out = NoArg
    /\ err = NilErr
    /\ trace = <<>>
    /\ gres = NoGet

\* err := Parse(arg); out is the argument after the call, arg the argument
\* before it
CallParse ==
    /\ pc = "callParse"
    /\ out' = Parse(env, arg, <<>>).v
    /\ err' = Parse(env, arg, <<>>).err
    /\ trace' = Parse(env, arg, <<>>).trace
    /\ pc' = "parsed"
    /\ UNCHANGED <<env, arg, gfield, gres>>

\* gres := get(gfield)
CallGet ==
    /\ pc = "callGet"
    /\ gres' = get(env, gfield)
    /\ pc' = "resolved"
    /\ UNCHANGED <<env, arg, out, err, trace, gfield>>

Next == CallParse \/ CallGet

Spec == Init /\ [][Next]_vars

----------------------------------------------------------------------------
(* What the properties speak of *)

\* Parse has returned
Parsed == pc = "parsed"

\* get has returned
Resolved == pc = "resolved"

\* the argument of Parse is a pointer to a struct
IsStructPtr(v) == v.kind = "Ptr" /\ ~IsNil(v) /\ v.ptr[1].kind = "Struct"

\* the source variable and the options an env tag names
KeyOf(f) == Split(f.env, Comma)[1]

OptsOf(f) == Tail(Split(f.env, Comma))

HasRequired(f) == \E k \in 1..Len(OptsOf(f)) : OptsOf(f)[k] = RequiredOpt

HasOtherOpt(f) == \E k \in 1..Len(OptsOf(f)) : OptsOf(f)[k] \notin {EmptyStr, RequiredOpt}

\* the source variable of f is not set in the environment
SourceAbsent(f) == KeyOf(f) \notin DOMAIN env \/ ~env[KeyOf(f)].ok

\* the field carries no env, envDefault or envSeparator tag
Untagged(f) == f.env = EmptyStr /\ f.dflt = EmptyStr /\ f.sep = EmptyStr

\* the struct a value is or points to
StructOf(v) == IF v.kind = "Ptr" THEN v.ptr[1] ELSE v

RECURSIVE FieldsOf(_, _, _)
\* every field of the struct st and of the structs its fields hold or point
\* to, each with its index path and the read-only flag of its struct
FieldsOf(st, ro, path) ==
    UNION { {[path |-> Append(path, i), f |-> st.fields[i], ro |-> ro]}
            \cup (IF st.fields[i].v.kind = "Struct"
                  THEN FieldsOf(st.fields[i].v, FieldsRO(st.fields[i], ro), Append(path, i))
                  ELSE IF st.fields[i].v.kind = "Ptr" /\ ElemKind(st.fields[i].v) = "Struct"
                  THEN FieldsOf(st.fields[i].v.ptr[1],
                                ~CanSet(st.fields[i], ro) /\ FieldsRO(st.fields[i], ro),
                                Append(path, i))
                  ELSE {})
            : i \in 1..Len(st.fields) }

\* the fields of the struct Parse was called on, at every depth
AllFields == FieldsOf(arg.ptr[1], FALSE, <<>>)

RECURSIVE ValueAt(_, _)
\* the value of the field at an index path of v
ValueAt(v, path) ==
    IF path = <<>> THEN v ELSE ValueAt(StructOf(v).fields[Head(path)].v, Tail(path))

\* equal field values; of a pointer field, the pointer and not the pointee
SameValue(a, b) == IF a.kind = "Ptr" THEN b.kind = "Ptr" /\ IsNil(a) = IsNil(b) ELSE a = b

\* the events of one kind at one path
Events(op, path) == {k \in 1..Len(trace) : trace[k].op = op /\ trace[k].path = path}

HasPrefix(s, prefix) == Len(prefix) <= Len(s) /\ SubSeq(s, 1, Len(prefix)) = prefix

----------------------------------------------------------------------------
(* Properties *)

\* C1: Parse of an argument that is no pointer, or a pointer to something
\* other than a struct (a nil pointer among them), returns ErrNotAStructPtr,
\* does nothing to any field and leaves the argument and what it points to
\* as they were.
C1_NotAStructPtr ==
    (Parsed /\ ~IsStructPtr(arg)) =>
        /\ err = ErrNotAStructPtr
        /\ out = arg
        /\ trace = <<>>

\* a pointer to a pointer to a struct was refused
C1_Witness ==
    /\ Parsed
    /\ arg = PtrTo(PtrTo(InnerAB))
    /\ err = ErrNotAStructPtr

\* C7: for a field without options get returns the value of the variable
\* whenever the variable is set, the empty value and a declared default
\* notwithstanding, returns the default exactly when it is not set, and
\* returns no error.
C7_ResolveNoOptions ==
    (Resolved /\ ~Contains(gfield.env, Comma)) =>
        /\ gres.err.isNil
        /\ (gfield.env \in DOMAIN env /\ env[gfield.env].ok) => gres.val = env[gfield.env].value
        /\ ~(gfield.env \in DOMAIN env /\ env[gfield.env].ok) => gres.val = gfield.dflt

\* A is set to the empty string, the field declares the default 7, and get
\* returned the empty string
C7_Witness ==
    /\ Resolved
    /\ gfield.env = KeyA
    /\ gfield.dflt = Seven
    /\ env[KeyA] = Present(EmptyStr)
    /\ gres.val = EmptyStr

\* C8: get of a field whose options hold a token other than the empty one
\* and required, wherever in the list, returns the error that names an
\* unsupported option.  (Stated for the fields whose variable is set, where
\* required itself raises no error.)
C8_OtherOptionFails ==
    (Resolved /\ HasOtherOpt(gfield) /\ ~SourceAbsent(gfield)) =>
        /\ ~gres.err.isNil
        /\ HasPrefix(gres.err.msg, OptPrefix)

\* the fields of the struct Parse was called on
TopFields == arg.ptr[1].fields

\* the message with which field f fails on its own: the error of its
\* resolution, else the error of the conversion of a non-empty source string
FailsLocally(f) ==
    \/ ~get(env, f).err.isNil
    \/ get(env, f).val # EmptyStr /\ ~set(f.v, f.sep, get(env, f).val).err.isNil

LocalMsg(f) ==
    IF ~get(env, f).err.isNil THEN get(env, f).err.msg
    ELSE set(f.v, f.sep, get(env, f).val).err.msg

RECURSIVE LocalMsgs(_)
\* the messages of the fields that fail on their own, in declaration order
LocalMsgs(fields) ==
    IF fields = <<>> THEN <<>>
    ELSE (IF FailsLocally(Head(fields)) THEN <<LocalMsg(Head(fields))>> ELSE <<>>)
         \o LocalMsgs(Tail(fields))

\* C2: when several fields of a struct fail on their own, in resolution or
\* in conversion, the error Parse returns is the message of every one of
\* them, once each, in declaration order, joined with ". ".  (Stated for the
\* structs whose fields can all be set and none of which is a pointer, so
\* that every field is resolved.)
C2_AllErrorsJoined ==
    (/\ Parsed
     /\ IsStructPtr(arg)
     /\ \A i \in 1..Len(TopFields) : TopFields[i].vis = "exported" /\ TopFields[i].v.kind # "Ptr"
     /\ Len(LocalMsgs(TopFields)) >= 2) =>
        /\ ~err.isNil
        /\ err.msg = Join(LocalMsgs(TopFields), JoinSep)

\* C3: for every field, at any depth and of any type, that carries required
\* and whose variable is not set, Parse fails and its error holds the
\* message that names the variable.
C3_RequiredReported ==
    (Parsed /\ IsStructPtr(arg)) =>
        \A x \in AllFields :
            (HasRequired(x.f) /\ SourceAbsent(x.f)) =>
                /\ ~err.isNil
                /\ Contains(err.msg, RequiredMsg(KeyOf(x.f)))

\* C4 as claimed: every field, whatever its type, whose variable is not set
\* and which declares no default has after Parse the value it had before.
C4_AbsentUnchangedAnyType ==
    (Parsed /\ IsStructPtr(arg)) =>
        \A x \in AllFields :
            (SourceAbsent(x.f) /\ x.f.dflt = EmptyStr) =>
                SameValue(ValueAt(out, x.path), x.f.v)

\* C4, amended: every field that is no struct by value, whose variable is
\* not set and which declares no default, has after Parse the value it had
\* before (of a pointer field: the pointer), whatever Parse returns.
C4_AbsentUnchanged ==
    (Parsed /\ IsStructPtr(arg)) =>
        \A x \in AllFields :
            (SourceAbsent(x.f) /\ x.f.dflt = EmptyStr /\ x.f.v.kind # "Struct") =>
                SameValue(ValueAt(out, x.path), x.f.v)

\* Parse failed, wrote the second field, and left the first, a string whose
\* variable A is not set, at its old value
C4_Witness ==
    /\ Parsed
    /\ IsStructPtr(arg)
    /\ ~err.isNil
    /\ Len(TopFields) = 2
    /\ TopFields[1].v = StringV(Old)
    /\ TopFields[1].env = Tag(KeyA, <<RequiredOpt>>)
    /\ ~env[KeyA].ok
    /\ Events("set", <<2>>) # {}
    /\ ValueAt(out, <<1>>) = StringV(Old)

\* C6: Parse of a pointer to a struct none of whose fields carries a tag
\* returns no error and changes no field, whatever the fields hold.
C6_UntaggedSucceeds ==
    (Parsed /\ IsStructPtr(arg) /\ \A x \in AllFields : Untagged(x.f)) =>
        /\ err.isNil
        /\ out = arg

\* the field at an index path was resolved, written, or recursed into
Touched(path) == \E k \in 1..Len(trace) : trace[k].path = path

\* doParse passes over the field without resolving it
PassedOver(f) == f.vis # "exported" /\ f.v.kind # "Struct"

\* a field of the struct Parse was called on that is a non-nil pointer which
\* can be set
IsTopPtr(f) == f.v.kind = "Ptr" /\ ~IsNil(f.v) /\ f.vis = "exported"

\* the recursive Parse of an earlier pointer field has failed
FailedBefore(i) ==
    \E j \in 1..(i - 1) :
        IsTopPtr(TopFields[j]) /\ ~Parse(env, TopFields[j].v, <<j>>).err.isNil

\* an event that appends to the errorList of the outermost doParse
IsTopErr(ev) == ev.op = "err" /\ Len(ev.path) = 1

\* the messages appended to the errorList of the outermost doParse
TopErrMsgs == [k \in 1..Len(SelectSeq(trace, IsTopErr)) |-> SelectSeq(trace, IsTopErr)[k].err.msg]

\* C5 as claimed: every field that can be set, is no pointer, and whose
\* variable, or else its default, is not empty, is written exactly once.
\* (Stated for the structs all of whose fields can be set, are neither
\* pointers nor structs and carry no unsupported option, so that every field
\* is resolved without error.)
C5_WrittenExactlyOnce ==
    (/\ Parsed
     /\ IsStructPtr(arg)
     /\ \A x \in AllFields :
           x.f.vis = "exported" /\ x.f.v.kind \notin {"Ptr", "Struct"} /\ ~HasOtherOpt(x.f)) =>
        \A x \in AllFields :
            (/\ CanSet(x.f, x.ro)
             /\ x.f.v.kind # "Ptr"
             /\ getOr(env, KeyOf(x.f), x.f.dflt) # EmptyStr) =>
                Cardinality(Events("set", x.path)) = 1

\* C5, amended: every field is written at most once, and only a field that
\* can be set and is no pointer is written; such a field is written exactly
\* once when the call resolves it, the resolution returns no error and a
\* non-empty source string, and that string converts to the field's type,
\* and is not written otherwise.
C5_WrittenOnceWhenConverted ==
    (Parsed /\ IsStructPtr(arg)) =>
        \A x \in AllFields :
            /\ Cardinality(Events("set", x.path)) <= 1
            /\ Events("set", x.path) # {} => (CanSet(x.f, x.ro) /\ x.f.v.kind # "Ptr")
            /\ Events("set", x.path) # {} <=>
                  /\ Events("get", x.path) # {}
                  /\ get(env, x.f).err.isNil
                  /\ get(env, x.f).val # EmptyStr
                  /\ set(x.f.v, x.f.sep, get(env, x.f).val).err.isNil
            /\ Events("set", x.path) = {} => SameValue(ValueAt(out, x.path), x.f.v) \/ x.f.v.kind = "Struct"

\* the first field, a bool whose variable B holds "x", was not written;
\* the second, an int with the default 7, was written once
C5_Witness ==
    /\ Parsed
    /\ IsStructPtr(arg)
    /\ Len(TopFields) = 2
    /\ TopFields[1].v = BoolV(FALSE)
    /\ TopFields[1].env = KeyB
    /\ env[KeyB] = Present(<<"x">>)
    /\ Events("set", <<1>>) = {}
    /\ Cardinality(Events("set", <<2>>)) = 1
    /\ ValueAt(out, <<2>>) = IntV(7)

\* the field f takes a value from its own tags: it can be set, its
\* resolution returns no error and a non-empty string, and the string
\* converts to the field's type
BoundFromOwn(f, ro) ==
    /\ CanSet(f, ro)
    /\ get(env, f).err.isNil
    /\ get(env, f).val # EmptyStr
    /\ set(f.v, f.sep, get(env, f).val).err.isNil

\* the value the field f takes from its own tags
OwnValue(f) == set(f.v, f.sep, get(env, f).val).v

\* C9: when the own source string of a struct field held by value is empty,
\* doParse binds the fields of the nested struct in place, each from its own
\* variable, goes on with the next field, and neither appends the nested
\* struct's errors to its errorList nor fails because of them.
C9_NestedByValue ==
    (Parsed /\ IsStructPtr(arg)) =>
        \A i \in 1..Len(TopFields) :
            (/\ TopFields[i].v.kind = "Struct"
             /\ Events("get", <<i>>) # {}
             /\ get(env, TopFields[i]).val = EmptyStr) =>
                /\ \A j \in 1..Len(TopFields[i].v.fields) :
                      TopFields[i].v.fields[j].v.kind \notin {"Struct", "Ptr"} =>
                          ValueAt(out, <<i, j>>) =
                              IF BoundFromOwn(TopFields[i].v.fields[j], FieldsRO(TopFields[i], FALSE))
                              THEN OwnValue(TopFields[i].v.fields[j])
                              ELSE TopFields[i].v.fields[j].v
                /\ i < Len(TopFields) => (Touched(<<i + 1>>) \/ PassedOver(TopFields[i + 1]))
                /\ ~FailedBefore(Len(TopFields) + 1) => err = joinErrors(TopErrMsgs)

\* the nested struct's required variable A is not set and its B holds "1":
\* the nested error was recorded nowhere, the nested B was written, the
\* next field was resolved and Parse returned no error
C9_Witness ==
    /\ Parsed
    /\ IsStructPtr(arg)
    /\ Len(TopFields) = 2
    /\ TopFields[1].v = InnerRequired
    /\ TopFields[1].env = EmptyStr
    /\ ~env[KeyA].ok
    /\ env[KeyB] = Present(<<"1">>)
    /\ Events("err", <<1, 1>>) # {}
    /\ ValueAt(out, <<1, 2>>) = BoolV(TRUE)
    /\ Events("get", <<2>>) # {}
    /\ err.isNil

\* C10: doParse calls Parse on a pointer field that is not nil and can be
\* set, and never resolves the field's own tag; when that Parse returns an
\* error doParse returns the same error at once, resolving and writing no
\* later field; when it returns none doParse goes on with the next field.
C10_PointerField ==
    (Parsed /\ IsStructPtr(arg)) =>
        \A i \in 1..Len(TopFields) :
            IsTopPtr(TopFields[i]) =>
                /\ Events("get", <<i>>) = {}
                /\ ~FailedBefore(i) =>
                      /\ Events("parse", <<i>>) # {}
                      /\ ValueAt(out, <<i>>) = Parse(env, TopFields[i].v, <<i>>).v
                      /\ ~Parse(env, TopFields[i].v, <<i>>).err.isNil =>
                            /\ err = Parse(env, TopFields[i].v, <<i>>).err
                            /\ \A k \in 1..Len(trace) : trace[k].path[1] <= i
                            /\ \A j \in (i + 1)..Len(TopFields) : ValueAt(out, <<j>>) = TopFields[j].v
                      /\ (Parse(env, TopFields[i].v, <<i>>).err.isNil /\ i < Len(TopFields)) =>
                            (Touched(<<i + 1>>) \/ PassedOver(TopFields[i + 1]))

\* Parse of the first field's pointee failed on its required variable A;
\* Parse returned that error and left the second field, a bool whose
\* variable B holds "1", unresolved and unwritten
C10_Witness ==
    /\ Parsed
    /\ IsStructPtr(arg)
    /\ Len(TopFields) = 2
    /\ TopFields[1].v = PtrTo(InnerRequired)
    /\ TopFields[2].v = BoolV(FALSE)
    /\ env[KeyB] = Present(<<"1">>)
    /\ ~env[KeyA].ok
    /\ err = NewErr(RequiredMsg(KeyA))
    /\ ~Touched(<<2>>)
    /\ ValueAt(out, <<2>>) = BoolV(FALSE)

====
